---- MODULE Spec2Model ----
(***************************************************************************)
(* Model of static/buildchart.js: the page script that fetches sensor      *)
(* readings, drives the loading / error visibility of the page and         *)
(* reconciles the fetched series into the chart's dataset list.            *)
(*                                                                         *)
(* The script runs on the browser's event loop.  A task (a user event, a   *)
(* network response) runs to completion together with every promise        *)
(* reaction it schedules, so between two awaits of the network a pipeline  *)
(* is never interleaved with another one.  `running` holds the pipeline    *)
(* whose promise reactions are being drained; tasks start only when it     *)
(* is 0.                                                                   *)
(***************************************************************************)
EXTENDS Integers, Sequences, FiniteSets, TLC

\* ------------------------------------------------------------------ bounds
\* Number of pipelines (user events) a behaviour may start.
MaxPipelines == 2

\* Length of the longest response body the metric deriver is run on.
MaxReadings == 3

\* ------------------------------------------------------- input domains
\* Readings as the service returns them (time in epoch ms).  The co2 field is
\* optional: the third reading carries none, the second carries 0.  The
\* second is below freezing.
R1 == [time |-> 1000, temperature |-> 20, humidity |-> 50, co2 |-> 450]
R2 == [time |-> 2500, temperature |-> -5, humidity |-> 60, co2 |-> 0]
R3 == [time |-> 4000, temperature |-> 22, humidity |-> 40]

\* Bodies a 200 response can decode to.
Bodies == { <<>>, <<R1, R2, R3>> }

\* Bodies of /temp/range/<span>, which the earliest snapshot reads: samples
\* of one metric.
TempBodies == { <<>>, << [time |-> 1000, value |-> 20], [time |-> 2500, value |-> 21] >> }

\* Every body of up to MaxReadings readings, in any order and with repeats.
Readings == { R1, R2, R3 }
ReadingSeqs == UNION { [1..n -> Readings] : n \in 0..MaxReadings }

\* Body text of a non-200 response.
ErrorTexts == { "db unavailable" }

\* Errors thrown by fetch() / text() / json().
TransportErrors == { [name |-> "TypeError", message |-> "Failed to fetch"] }
DecodeErrors == { [name |-> "SyntaxError", message |-> "Unexpected token"] }

\* Date.now() at the end of a fetch minus Date.now() at its start, in ms.
ElapsedTimes == { 12 }

\* Values the user changes the #timespan select and the #password input to;
\* they start as "1h" and "".
Timespans == { "24h" }
Passwords == { "secret" }

\* Viewport bounds a zoom and a pan gesture can end on, in tenths of a
\* millisecond (the chart's axis bounds are fractional).
ZoomViewports == { [min |-> 10004, max |-> 39996] }
PanViewports == { [min |-> 24995, max |-> 80000] }

\* The page's markup is not part of the script: the start / end displays may or
\* may not carry the class hide-until-loaded.
PlainMarkup == { "content" }
DatesMarkup == { "content", "start_date", "end_date" }

Elements == { "content", "spinner", "error", "start_date", "end_date" }

\* The table of ./co2_level_mapping.js: ordered bands [start, end) with a
\* description and a display color.
co2_map ==
    << [start |-> 0, end |-> 600, description |-> "Good", color |-> "green"],
       [start |-> 600, end |-> 1000, description |-> "Moderate", color |-> "yellow"] >>

\* Values /co2/current can answer with: every tenth ppm from below the table
\* to above it, and the last value of each band.
Co2Levels == { 10 * k : k \in -1..104 } \cup { 599, 999 }

VARIABLES
    variant,            \* which snapshot of the script is loaded: "co2" (lines
                        \* 703-936), "abs_humid" (lines 1-224), "temp" (lines
                        \* 397-515) or "two_requests" (lines 516-702)
    hide_until_loaded,  \* elements matching '.hide-until-loaded'
    hidden,             \* element -> its hidden attribute
    text,               \* element -> its textContent
    timespan,           \* timespan.value
    password,           \* password.value
    datasets,           \* chart.data.datasets
    axis,               \* chart.scales.xAxis min / max, tenths of ms
    zoomed,             \* the zoom plugin holds a user-set viewport
    calls,              \* calls made on the chart, in order
    pipes,              \* the pipelines started so far, in start order
    running,            \* pipeline whose promise reactions are running, or 0
    settled,            \* pipelines in the order their fetch_data settled
    requests,           \* the fetch() calls fetch_data has made, in order
    co2_chain,          \* the promise chain of fetch("/co2/current"): where
                        \* it stands and the value b.json() resolved with
    co2_box             \* co2_box.textContent and .style.backgroundColor

vars == << variant, hide_until_loaded, hidden, text, timespan, password,
           datasets, axis, zoomed, calls, pipes, running, settled, requests,
           co2_chain, co2_box >>

dom == << hidden, text >>
chartvars == << datasets, axis, zoomed, calls >>
config == << variant, hide_until_loaded >>
co2vars == << co2_chain, co2_box >>

\* ------------------------------------------------------------- helpers
\* Math.round: to the nearest integer, halves towards +infinity.  The argument
\* is in tenths of a millisecond, the result in milliseconds.
MathRound(x) == (x + 5) \div 10

\* new Date(ms).toLocaleString(): the date and time to the second.
toLocaleString(ms) == "t" \o ToString(ms \div 1000) \o "s"

\* String(error), as assigning an Error to textContent does.
ErrorToString(e) == e.name \o ": " \o e.message

\* Variant of the filter's test: only a missing field drops the reading.
TruthyCo2_defined_only(d) == "co2" \in DOMAIN d

\* Truthiness of d.co2: false for a reading without the field (undefined) and
\* for the number 0.
TruthyCo2(d) == "co2" \in DOMAIN d /\ d.co2 # 0

\* data.filter((d) => d.co2)
RECURSIVE FilterCo2(_)
FilterCo2(s) ==
    IF s = <<>> THEN <<>>
    ELSE IF TruthyCo2(Head(s)) THEN <<Head(s)>> \o FilterCo2(Tail(s))
         ELSE FilterCo2(Tail(s))

\* ------------------------------------------------------ metric deriver
\* Fixed point, three decimals: a value v stands for v / 1000.
\* Math.exp by its Taylor series, x in thousandths.
RECURSIVE ExpTerms(_, _, _)
ExpTerms(x, k, term) ==
    IF k > 14 \/ term = 0 THEN 0
    ELSE term + ExpTerms(x, k + 1, (term * x) \div (k * 1000))

MathExp(x) == ExpTerms(x, 1, 1000)

\* P = 0.61121 * exp((18.678 - (T / 234.5)) * (T / (257.14 + T))), T in whole
\* degrees Celsius, the result in thousandths of a kPa.  At T = -257.14 the
\* divisor is 0; whole degrees never reach it.
calculate_saturation_pressure(temperature_c) ==
    LET t_1 == (temperature_c * 10000) \div 2345
        t_2 == (temperature_c * 100000) \div (25714 + 100 * temperature_c)
        pow1 == ((18678 - t_1) * t_2) \div 1000
        exp == MathExp(pow1)
    IN  (61121 * exp) \div 100000

\* The value is in thousandths of a g/m3.  Dividing by 461.5 * 0 gives
\* Infinity for a positive dividend and NaN for 0 / 0.
absolute_humidity(data) ==
    LET temp == data.temperature
        hum == data.humidity
        saturation_pressure == calculate_saturation_pressure(temp)
        vapor_pressure == (saturation_pressure * hum) \div 100
    IN  [time |-> data.time,
         value |-> IF temp = 0
                   THEN (IF vapor_pressure = 0 THEN "NaN" ELSE "Infinity")
                   ELSE (vapor_pressure * 180200) \div (4615 * temp)]

\* convert(data) of the absolute-humidity snapshot.
convert(data) ==
    [temp |-> [i \in 1..Len(data) |->
                 [value |-> data[i].temperature, time |-> data[i].time]],
     humid |-> [i \in 1..Len(data) |->
                  [value |-> data[i].humidity, time |-> data[i].time]],
     abs_humid |-> [i \in 1..Len(data) |-> absolute_humidity(data[i])]]

\* The body of fetch_range_data / fetch_range_data_between after the await, in
\* the CO2 snapshot (both functions derive the same way).
derive_co2(data) ==
    LET with_co2 == FilterCo2(data)
    IN  [temp |-> [i \in 1..Len(data) |->
                     [time |-> data[i].time, value |-> data[i].temperature]],
         humid |-> [i \in 1..Len(data) |->
                      [time |-> data[i].time, value |-> data[i].humidity]],
         co2 |-> [i \in 1..Len(with_co2) |->
                    [time |-> with_co2[i].time, value |-> with_co2[i].co2]]]

\* What fetch_range_data hands to update_chart.
derive(v, data) == IF v = "co2" THEN derive_co2(data) ELSE convert(data)

\* data.<series>.map((d) => { return { x: d.time, y: d.value } })
ToPoints(series) ==
    [i \in 1..Len(series) |-> [x |-> series[i].time, y |-> series[i].value]]

\* -------------------------------------------------- dataset reconciler
\* Variant of update_chart: populated once, the chart keeps its first points.
update_chart_co2_insert_only(ds, data) ==
    IF Len(ds) # 3
    THEN ds \o << [label |-> "Temperature (C)", data |-> ToPoints(data.temp), yAxisID |-> "y"],
                  [label |-> "Humidity (%H)", data |-> ToPoints(data.humid), yAxisID |-> "y1"],
                  [label |-> "Co2 (ppm)", data |-> ToPoints(data.co2), yAxisID |-> "y2"] >>
    ELSE ds

\* Variant of update_chart: every call pushes three more datasets.
update_chart_co2_always_push(ds, data) ==
    ds \o << [label |-> "Temperature (C)", data |-> ToPoints(data.temp), yAxisID |-> "y"],
             [label |-> "Humidity (%H)", data |-> ToPoints(data.humid), yAxisID |-> "y1"],
             [label |-> "Co2 (ppm)", data |-> ToPoints(data.co2), yAxisID |-> "y2"] >>

\* update_chart of the CO2 snapshot, on the dataset list.
update_chart_co2(ds, data) ==
    LET dataset == ToPoints(data.temp)
        dataset1 == ToPoints(data.humid)
        dataset2 == ToPoints(data.co2)
    IN  IF Len(ds) # 3
        THEN ds \o << [label |-> "Temperature (C)", data |-> dataset, yAxisID |-> "y"],
                      [label |-> "Humidity (%H)", data |-> dataset1, yAxisID |-> "y1"],
                      [label |-> "Co2 (ppm)", data |-> dataset2, yAxisID |-> "y2"] >>
        ELSE [ds EXCEPT ![1].data = dataset, ![2].data = dataset1, ![3].data = dataset2]

\* update_chart of the absolute-humidity snapshot: dataset2 is computed from
\* data.abs_humid and used nowhere.
update_chart_abs_humid(ds, data) ==
    LET dataset == ToPoints(data.temp)
        dataset1 == ToPoints(data.humid)
        dataset2 == ToPoints(data.abs_humid)
    IN  IF Len(ds) = 0
        THEN ds \o << [label |-> "Temperature (C)", data |-> dataset, yAxisID |-> "y"],
                      [label |-> "Humidity (%H)", data |-> dataset1, yAxisID |-> "y1"] >>
        ELSE [ds EXCEPT ![1].data = dataset, ![2].data = dataset1]

update_chart(v, ds, data) ==
    IF v = "co2" THEN update_chart_co2(ds, data) ELSE update_chart_abs_humid(ds, data)

\* The time axis fitted to the data (chart.update without a user-set viewport,
\* chart.resetZoom), tenths of ms; an empty chart keeps the scale's default.
DefaultAxis == [min |-> 0, max |-> 10000]

SetMin(S) == CHOOSE m \in S : \A n \in S : m <= n
SetMax(S) == CHOOSE m \in S : \A n \in S : m >= n

FitAxis(ds) ==
    LET xs == UNION { { ds[i].data[j].x : j \in 1..Len(ds[i].data) } : i \in 1..Len(ds) }
    IN  IF xs = {} THEN DefaultAxis
        ELSE [min |-> 10 * SetMin(xs), max |-> 10 * SetMax(xs)]

\* ------------------------------------------------------------ page state
\* Variant of report_error: the banner shows a fixed text.
report_error_generic(d, message) ==
    [hidden |-> [e \in Elements |->
                    IF e \in hide_until_loaded THEN TRUE
                    ELSE IF e = "error" THEN FALSE ELSE d.hidden[e]],
     text |-> [d.text EXCEPT !["error"] = "Something went wrong"]]

\* Variant of report_error: the result-dependent elements are left as they are.
report_error_keeps_results(d, message) ==
    [hidden |-> [d.hidden EXCEPT !["error"] = FALSE],
     text |-> [d.text EXCEPT !["error"] = message]]

\* report_error(message) on the page d = [hidden, text]; message is the string
\* textContent ends up holding.
report_error(d, message) ==
    [hidden |-> [e \in Elements |->
                    IF e \in hide_until_loaded THEN TRUE
                    ELSE IF e = "error" THEN FALSE ELSE d.hidden[e]],
     text |-> [d.text EXCEPT !["error"] = message]]

\* Variant of the success path: the error banner is left as it was.
show_result_keeps_error(d, body, elapsed) ==
    LET shown == [e \in Elements |->
                    IF e \in hide_until_loaded THEN FALSE ELSE d.hidden[e]]
        counted == [d.text EXCEPT !["load_time"] = ToString(elapsed),
                                  !["points_loaded"] = ToString(Len(body))]
    IN  IF Len(body) > 0
        THEN [hidden |-> shown,
              text |-> [counted EXCEPT
                          !["start_date"] = toLocaleString(body[1].time),
                          !["end_date"] = toLocaleString(body[Len(body)].time)]]
        ELSE [hidden |-> [shown EXCEPT !["start_date"] = TRUE, !["end_date"] = TRUE],
              text |-> counted]

\* Variant of the success path: an empty result blanks the date displays
\* and leaves them visible.
show_result_blank_dates(d, body, elapsed) ==
    LET shown == [e \in Elements |->
                    IF e = "error" THEN TRUE
                    ELSE IF e \in hide_until_loaded THEN FALSE ELSE d.hidden[e]]
        counted == [d.text EXCEPT !["load_time"] = ToString(elapsed),
                                  !["points_loaded"] = ToString(Len(body))]
    IN  IF Len(body) > 0
        THEN [hidden |-> shown,
              text |-> [counted EXCEPT
                          !["start_date"] = toLocaleString(body[1].time),
                          !["end_date"] = toLocaleString(body[Len(body)].time)]]
        ELSE [hidden |-> shown,
              text |-> [counted EXCEPT !["start_date"] = "", !["end_date"] = ""]]

\* Variant of the success path: the elapsed time is not displayed.
show_result_without_load_time(d, body, elapsed) ==
    LET shown == [e \in Elements |->
                    IF e = "error" THEN TRUE
                    ELSE IF e \in hide_until_loaded THEN FALSE ELSE d.hidden[e]]
        counted == [d.text EXCEPT !["points_loaded"] = ToString(Len(body))]
    IN  IF Len(body) > 0
        THEN [hidden |-> shown,
              text |-> [counted EXCEPT
                          !["start_date"] = toLocaleString(body[1].time),
                          !["end_date"] = toLocaleString(body[Len(body)].time)]]
        ELSE [hidden |-> [shown EXCEPT !["start_date"] = TRUE, !["end_date"] = TRUE],
              text |-> counted]

\* fetch_data from `const end = Date.now()` up to `return body`.
show_result(d, body, elapsed) ==
    LET shown == [e \in Elements |->
                    IF e = "error" THEN TRUE
                    ELSE IF e \in hide_until_loaded THEN FALSE ELSE d.hidden[e]]
        counted == [d.text EXCEPT !["load_time"] = ToString(elapsed),
                                  !["points_loaded"] = ToString(Len(body))]
    IN  IF Len(body) > 0
        THEN [hidden |-> shown,
              text |-> [counted EXCEPT
                          !["start_date"] = toLocaleString(body[1].time),
                          !["end_date"] = toLocaleString(body[Len(body)].time)]]
        ELSE [hidden |-> [shown EXCEPT !["start_date"] = TRUE, !["end_date"] = TRUE],
              text |-> counted]

\* The finally block of fetch_data: every '.visible-until-loaded' element.
hide_indicator(h) == [h EXCEPT !["spinner"] = TRUE]

\* The page as loaded: the result-dependent elements and the error banner are
\* hidden, the in-flight indicator is visible, the chart has no dataset.
InitPage(v, markup) ==
    /\ variant = v
    /\ hide_until_loaded = markup
    /\ hidden = [e \in Elements |-> e \in hide_until_loaded \/ e = "error"]
    /\ text = [e \in {"error", "start_date", "end_date", "load_time", "points_loaded"} |-> ""]
    /\ timespan = "1h"
    /\ password = ""
    /\ datasets = <<>>
    /\ axis = DefaultAxis
    /\ zoomed = FALSE
    /\ calls = <<>>
    /\ pipes = <<>>
    /\ running = 0
    /\ settled = <<>>
    /\ requests = <<>>
    /\ co2_chain = [pc |-> "await_fetch", value |-> 0]
    /\ co2_box = [textContent |-> "", backgroundColor |-> ""]

Init == InitPage("co2", PlainMarkup)

InitAbsHumid == InitPage("abs_humid", PlainMarkup)

InitDatesMarkup == InitPage("co2", DatesMarkup)

\* options.scales of the chart configuration: the scales the chart declares,
\* each with the title it displays (the time axis has none).
scales == [xAxis |-> "", y |-> "Temperature (C)", y1 |-> "Humidity (%H)",
           y3 |-> "Co2 (ppm)"]

\* ------------------------------------------------------------- pipelines
\* A pipeline is one run of an event handler.  Its record holds the handler's
\* locals (url, result, data), where it stands (pc) and, for the
\* properties below, what started it, the viewport the gesture that started it
\* ended on, the outcome of its fetch_data call, the message of a failure and
\* how often its finally block has run.
Pipes == 1..Len(pipes)

FullReloadTriggers == { "timespan", "password", "reset" }

\* The viewport recorded for an event that is no gesture.
NoViewport == [min |-> 0, max |-> 0]

\* fetch(url, { headers: { authorization: "Bearer " + password.value } })
Request(url, pw) == [url |-> url, authorization |-> "Bearer " \o pw]

NewPipe(trigger, handler, url, pw, vp) ==
    [trigger |-> trigger, handler |-> handler, viewport |-> vp, url |-> url,
     authorization |-> "Bearer " \o pw,
     pc |-> "await_fetch", outcome |-> "pending",
     message |-> "", result |-> <<>>, cleanups |-> 0, data |-> <<>>]

CanStart == running = 0 /\ Len(pipes) < MaxPipelines

\* Variant of timespan.onchange: starting a fetch hides the result-dependent
\* elements and shows the in-flight indicator.
timespan_onchange_enters_loading(trigger) ==
    /\ pipes' = Append(pipes, NewPipe(trigger, "timespan_onchange",
                 "/data/range/" \o timespan', password', NoViewport))
    /\ requests' = Append(requests, Request("/data/range/" \o timespan', password'))
    /\ hidden' = [e \in Elements |->
                    IF e \in hide_until_loaded THEN TRUE
                    ELSE IF e = "spinner" THEN FALSE ELSE hidden[e]]
    /\ UNCHANGED << config, co2vars, text, chartvars, running, settled >>

\* Variant of timespan.onchange: while a request is in flight, the handler
\* returns without issuing another one.
timespan_onchange_coalesces(trigger) ==
    /\ IF \E q \in Pipes : pipes[q].pc = "await_fetch"
       THEN /\ pipes' = Append(pipes,
                     [NewPipe(trigger, "timespan_onchange",
                              "/data/range/" \o timespan', password', NoViewport)
                        EXCEPT !.pc = "done"])
            /\ requests' = requests
       ELSE /\ pipes' = Append(pipes, NewPipe(trigger, "timespan_onchange",
                         "/data/range/" \o timespan', password', NoViewport))
            /\ requests' = Append(requests,
                                  Request("/data/range/" \o timespan', password'))
    /\ UNCHANGED << config, co2vars, dom, chartvars, running, settled >>

\* timespan.onchange: fetch_range_data(timespan.value) up to its await of
\* fetch() inside fetch_data; the then-chain runs when the fetch has settled.
timespan_onchange(trigger) ==
    /\ pipes' = Append(pipes, NewPipe(trigger, "timespan_onchange",
                 "/data/range/" \o timespan', password', NoViewport))
    /\ requests' = Append(requests, Request("/data/range/" \o timespan', password'))
    /\ UNCHANGED << config, co2vars, dom, chartvars, running, settled >>

\* The user picks a preset: the select's value changes, then onchange fires.
TimespanChanged(v) ==
    /\ CanStart
    /\ timespan' = v
    /\ UNCHANGED password
    /\ timespan_onchange("timespan")

\* password.onchange calls timespan.onchange().
PasswordChanged(v) ==
    /\ CanStart
    /\ password' = v
    /\ UNCHANGED timespan
    /\ timespan_onchange("password")

\* reset.onclick calls timespan.onchange().
ResetClicked ==
    /\ CanStart
    /\ UNCHANGED << timespan, password >>
    /\ timespan_onchange("reset")

\* Variant of the two handlers: the bounds are cut to whole milliseconds
\* (Math.floor) instead of rounded.
refresh_truncates(trigger, handler, vp) ==
    /\ CanStart
    /\ axis' = vp
    /\ zoomed' = TRUE
    /\ LET min == axis'.min \div 10
           max == axis'.max \div 10
           url == "/data/from/" \o ToString(min) \o "/to/" \o ToString(max)
       IN  /\ pipes' = Append(pipes, NewPipe(trigger, handler, url, password, vp))
           /\ requests' = Append(requests, Request(url, password))
    /\ UNCHANGED << config, co2vars, dom, timespan, password, datasets, calls, running, settled >>

\* on_zoom_complete_check / on_range_change up to the await of fetch(); the
\* plugin has moved the axis to the gesture's bounds before it calls them.
refresh(trigger, handler, vp) ==
    /\ CanStart
    /\ axis' = vp
    /\ zoomed' = TRUE
    /\ LET min == MathRound(axis'.min)
           max == MathRound(axis'.max)
           url == "/data/from/" \o ToString(min) \o "/to/" \o ToString(max)
       IN  /\ pipes' = Append(pipes, NewPipe(trigger, handler, url, password, vp))
           /\ requests' = Append(requests, Request(url, password))
    /\ UNCHANGED << config, co2vars, dom, timespan, password, datasets, calls, running, settled >>

on_zoom_complete_check(vp) == refresh("zoom", "on_zoom_complete_check", vp)

on_range_change(vp) == refresh("pan", "on_range_change", vp)

\* ------------------------------------------------------------ fetch_data
\* A network task resumes pipeline p at the await it is suspended on.
Resume(p, at) == running = 0 /\ p \in Pipes /\ pipes[p].pc = at

\* The outcome is known: the try block has run up to its return (or the catch
\* block has), the finally block is next.
Classify(p, outcome, message, result, d) ==
    /\ pipes' = [pipes EXCEPT ![p].pc = "finally", ![p].outcome = outcome,
                              ![p].message = message, ![p].result = result]
    /\ hidden' = d.hidden
    /\ text' = d.text
    /\ running' = p
    /\ UNCHANGED << config, co2vars, requests, timespan, password, chartvars, settled >>

page == [hidden |-> hidden, text |-> text]

\* fetch() resolves with a response: a non-200 status awaits data.text(), a 200
\* awaits data.json().
FetchResolves(p, status) ==
    /\ Resume(p, "await_fetch")
    /\ pipes' = [pipes EXCEPT ![p].pc = IF status # 200 THEN "await_text"
                                        ELSE "await_json"]
    /\ UNCHANGED << config, co2vars, requests, dom, timespan, password, chartvars, running, settled >>

\* Variant of fetch_data without its catch and finally blocks: a rejected
\* fetch ends the handler's chain with an unhandled rejection.
FetchRejects_uncaught(p, error) ==
    /\ Resume(p, "await_fetch")
    /\ pipes' = [pipes EXCEPT ![p].pc = "threw", ![p].outcome = "rejected"]
    /\ UNCHANGED << config, co2vars, requests, dom, timespan, password, chartvars,
                    running, settled >>

\* fetch() rejects: catch (error) { report_error(error); return [] }.
FetchRejects(p, error) ==
    /\ Resume(p, "await_fetch")
    /\ Classify(p, "rejected", error, <<>>, report_error(page, ErrorToString(error)))

\* report_error(await data.text()); return [].
TextResolves(p, body_text) ==
    /\ Resume(p, "await_text")
    /\ Classify(p, "non200", body_text, <<>>, report_error(page, body_text))

TextRejects(p, error) ==
    /\ Resume(p, "await_text")
    /\ Classify(p, "rejected", error, <<>>, report_error(page, ErrorToString(error)))

\* body = await data.json() and the rest of the try block.
JsonResolves(p, body, elapsed) ==
    /\ Resume(p, "await_json")
    /\ Classify(p, "success", "", body, show_result(page, body, elapsed))

\* data.json() rejects: the body does not decode.
JsonRejects(p, error) ==
    /\ Resume(p, "await_json")
    /\ Classify(p, "decode", error, <<>>, report_error(page, ErrorToString(error)))

\* Variant of fetch_data: the indicator is hidden at the end of the try block
\* instead of in a finally block, so a failure skips it.
Finally_on_success_only(p) ==
    /\ running = p
    /\ pipes[p].pc = "finally"
    /\ IF pipes[p].outcome = "success"
       THEN /\ hidden' = hide_indicator(hidden)
            /\ pipes' = [pipes EXCEPT ![p].pc = "returned", ![p].cleanups = @ + 1]
       ELSE /\ hidden' = hidden
            /\ pipes' = [pipes EXCEPT ![p].pc = "returned"]
    /\ settled' = Append(settled, p)
    /\ UNCHANGED << config, co2vars, requests, text, timespan, password, chartvars, running >>

\* finally { hide every '.visible-until-loaded' }; then fetch_data's promise
\* resolves with the value returned.
Finally(p) ==
    /\ running = p
    /\ pipes[p].pc = "finally"
    /\ hidden' = hide_indicator(hidden)
    /\ pipes' = [pipes EXCEPT ![p].pc = "returned", ![p].cleanups = @ + 1]
    /\ settled' = Append(settled, p)
    /\ UNCHANGED << config, co2vars, requests, text, timespan, password, chartvars, running >>

\* fetch_range_data / fetch_range_data_between after `await fetch_data(...)`.
Derive(p) ==
    /\ running = p
    /\ pipes[p].pc = "returned"
    /\ pipes' = [pipes EXCEPT ![p].pc = "derived",
                              ![p].data = derive(variant, pipes[p].result)]
    /\ UNCHANGED << config, co2vars, requests, dom, timespan, password, chartvars, running, settled >>

\* Variant of the handlers: every handler chains chart.resetZoom().
UpdateChart_always_chains(p) ==
    /\ running = p
    /\ pipes[p].pc = "derived"
    /\ datasets' = update_chart(variant, datasets, pipes[p].data)
    /\ calls' = Append(calls, [op |-> "update", mode |-> "none", pipe |-> p])
    /\ axis' = IF zoomed THEN axis ELSE FitAxis(datasets')
    /\ pipes' = [pipes EXCEPT ![p].pc = "updated"]
    /\ UNCHANGED << config, co2vars, requests, dom, timespan, password, zoomed, running, settled >>

\* Variant of update_chart: the chart is redrawn a second time.
UpdateChart_twice(p) ==
    /\ running = p
    /\ pipes[p].pc = "derived"
    /\ datasets' = update_chart(variant, datasets, pipes[p].data)
    /\ calls' = calls \o << [op |-> "update", mode |-> "none", pipe |-> p],
                            [op |-> "update", mode |-> "none", pipe |-> p] >>
    /\ axis' = IF zoomed THEN axis ELSE FitAxis(datasets')
    /\ IF pipes[p].handler = "timespan_onchange"
       THEN /\ pipes' = [pipes EXCEPT ![p].pc = "updated"]
            /\ UNCHANGED running
       ELSE /\ pipes' = [pipes EXCEPT ![p].pc = "done"]
            /\ running' = 0
    /\ UNCHANGED << config, co2vars, requests, dom, timespan, password, zoomed, settled >>

\* update_chart(data), ending in chart.update('none').  The handlers of pan and
\* zoom end here; timespan.onchange has one more reaction chained.
UpdateChart(p) ==
    /\ running = p
    /\ pipes[p].pc = "derived"
    /\ datasets' = update_chart(variant, datasets, pipes[p].data)
    /\ calls' = Append(calls, [op |-> "update", mode |-> "none", pipe |-> p])
    /\ axis' = IF zoomed THEN axis ELSE FitAxis(datasets')
    /\ IF pipes[p].handler = "timespan_onchange"
       THEN /\ pipes' = [pipes EXCEPT ![p].pc = "updated"]
            /\ UNCHANGED running
       ELSE /\ pipes' = [pipes EXCEPT ![p].pc = "done"]
            /\ running' = 0
    /\ UNCHANGED << config, co2vars, requests, dom, timespan, password, zoomed, settled >>

\* .then(() => chart.resetZoom())
ResetZoom(p) ==
    /\ running = p
    /\ pipes[p].pc = "updated"
    /\ calls' = Append(calls, [op |-> "resetZoom", mode |-> "", pipe |-> p])
    /\ zoomed' = FALSE
    /\ axis' = FitAxis(datasets)
    /\ pipes' = [pipes EXCEPT ![p].pc = "done"]
    /\ running' = 0
    /\ UNCHANGED << config, co2vars, requests, dom, timespan, password, datasets, settled >>

Statuses == { 200, 500 }

Next ==
    \/ \E v \in Timespans : TimespanChanged(v)
    \/ \E v \in Passwords : PasswordChanged(v)
    \/ ResetClicked
    \/ \E vp \in ZoomViewports : on_zoom_complete_check(vp)
    \/ \E vp \in PanViewports : on_range_change(vp)
    \/ \E p \in Pipes, status \in Statuses : FetchResolves(p, status)
    \/ \E p \in Pipes, error \in TransportErrors : FetchRejects(p, error)
    \/ \E p \in Pipes, body_text \in ErrorTexts : TextResolves(p, body_text)
    \/ \E p \in Pipes, error \in TransportErrors : TextRejects(p, error)
    \/ \E p \in Pipes, body \in Bodies, elapsed \in ElapsedTimes :
          JsonResolves(p, body, elapsed)
    \/ \E p \in Pipes, error \in DecodeErrors : JsonRejects(p, error)
    \/ \E p \in Pipes : Finally(p)
    \/ \E p \in Pipes : Derive(p)
    \/ \E p \in Pipes : UpdateChart(p)
    \/ \E p \in Pipes : ResetZoom(p)

Spec == Init /\ [][Next]_vars

\* The same script in its absolute-humidity snapshot.
SpecAbsHumid == InitAbsHumid /\ [][Next]_vars

\* The CO2 snapshot on a page whose date displays carry hide-until-loaded.
SpecDatesMarkup == InitDatesMarkup /\ [][Next]_vars

\* The promise reactions of pipeline p: once its fetch has settled they run
\* one after the other, before any other task.
Reactions(p) == Finally(p) \/ Derive(p) \/ UpdateChart(p) \/ ResetZoom(p)

\* The event loop drains the reactions of every pipeline; nothing makes the
\* network answer.
SpecLive ==
    /\ Init
    /\ [][Next]_vars
    /\ \A p \in 1..MaxPipelines : WF_vars(Reactions(p))

\* -------------------------------------- the earliest snapshot (397-515)
\* One handler, updatechart, run at load and on a preset change; it fetches
\* /temp/range/<span> without a credential, keeps one dataset and has no pan or
\* zoom callback.
\* fetch_data of that snapshot from `const end = Date.now()` to `return body`:
\* there are no date displays.
show_result_temp(d, body, elapsed) ==
    [hidden |-> [e \in Elements |->
                    IF e = "error" THEN TRUE
                    ELSE IF e \in hide_until_loaded THEN FALSE ELSE d.hidden[e]],
     text |-> [d.text EXCEPT !["load_time"] = ToString(elapsed),
                             !["points_loaded"] = ToString(Len(body))]]

\* updatechart() up to the await of fetch(url) inside fetch_data.
NewPipeTemp(trigger, span) ==
    [NewPipe(trigger, "updatechart", "/temp/range/" \o span, "", NoViewport)
        EXCEPT !.authorization = ""]

\* The page of that snapshot as loaded: the chart starts with a placeholder
\* dataset, and line 511 has called updatechart().
InitTemp ==
    /\ variant = "temp"
    /\ hide_until_loaded = PlainMarkup
    /\ hidden = [e \in Elements |-> e \in hide_until_loaded \/ e = "error"]
    /\ text = [e \in {"error", "start_date", "end_date", "load_time", "points_loaded"} |-> ""]
    /\ timespan = "1h"
    /\ password = ""
    /\ datasets = << [label |-> "Loading data...", data |-> <<>>] >>
    /\ axis = DefaultAxis
    /\ zoomed = FALSE
    /\ calls = <<>>
    /\ pipes = << NewPipeTemp("load", "1h") >>
    /\ running = 0
    /\ settled = <<>>
    /\ requests = << [url |-> "/temp/range/1h"] >>
    /\ co2_chain = [pc |-> "absent", value |-> 0]
    /\ co2_box = [textContent |-> "", backgroundColor |-> ""]

\* timespan.onchange = () => { updatechart() }
TimespanChangedTemp(v) ==
    /\ CanStart
    /\ timespan' = v
    /\ pipes' = Append(pipes, NewPipeTemp("timespan", timespan'))
    /\ requests' = Append(requests, [url |-> "/temp/range/" \o timespan'])
    /\ UNCHANGED << config, co2vars, dom, password, chartvars, running, settled >>

JsonResolvesTemp(p, body, elapsed) ==
    /\ Resume(p, "await_json")
    /\ Classify(p, "success", "", body, show_result_temp(page, body, elapsed))

\* updatechart() after `await fetch_data(timespan.value)`: the last dataset is
\* popped, the new one pushed, then chart.update() and chart.resetZoom().
updatechart(p) ==
    /\ running = p
    /\ pipes[p].pc = "returned"
    /\ LET data == pipes[p].result
           dataset == [i \in 1..Len(data) |-> [x |-> data[i].time, y |-> data[i].value]]
           popped == IF datasets = <<>> THEN <<>>
                     ELSE SubSeq(datasets, 1, Len(datasets) - 1)
       IN  /\ datasets' = Append(popped, [label |-> "Temperature (C)", data |-> dataset])
           /\ pipes' = [pipes EXCEPT ![p].pc = "done", ![p].data = data]
    /\ calls' = calls \o << [op |-> "update", mode |-> "default", pipe |-> p],
                            [op |-> "resetZoom", mode |-> "", pipe |-> p] >>
    /\ zoomed' = FALSE
    /\ axis' = FitAxis(datasets')
    /\ running' = 0
    /\ UNCHANGED << config, co2vars, requests, dom, timespan, password, settled >>

NextTemp ==
    \/ \E v \in Timespans : TimespanChangedTemp(v)
    \/ \E p \in Pipes, status \in Statuses : FetchResolves(p, status)
    \/ \E p \in Pipes, error \in TransportErrors : FetchRejects(p, error)
    \/ \E p \in Pipes, body_text \in ErrorTexts : TextResolves(p, body_text)
    \/ \E p \in Pipes, error \in TransportErrors : TextRejects(p, error)
    \/ \E p \in Pipes, body \in TempBodies, elapsed \in ElapsedTimes :
          JsonResolvesTemp(p, body, elapsed)
    \/ \E p \in Pipes, error \in DecodeErrors : JsonRejects(p, error)
    \/ \E p \in Pipes : Finally(p)
    \/ \E p \in Pipes : updatechart(p)

SpecTemp == InitTemp /\ [][NextTemp]_vars

\* ------------------------------- the two-request snapshot (516-702)
\* fetch_range_data and fetch_range_data_between call fetch_data twice, one
\* after the other: /temp<path>, then /humidity<path>.  There is no credential.
\* A pipeline's cleanups tell which call it is in; its data grows from
\* { temp } to { temp, humid } as the object literal is evaluated.
NewPipeTwo(trigger, handler, path, vp) ==
    [trigger |-> trigger, handler |-> handler, viewport |-> vp, path |-> path,
     url |-> "/temp" \o path, authorization |-> "",
     pc |-> "await_fetch", outcome |-> "pending",
     message |-> "", result |-> <<>>, cleanups |-> 0, data |-> <<>>]

\* The page of that snapshot as loaded: a placeholder dataset, and line 702
\* has called fetch_range_data(timespan.value).then(update_chart).
InitTwo ==
    /\ variant = "two_requests"
    /\ hide_until_loaded = PlainMarkup
    /\ hidden = [e \in Elements |-> e \in hide_until_loaded \/ e = "error"]
    /\ text = [e \in {"error", "start_date", "end_date", "load_time", "points_loaded"} |-> ""]
    /\ timespan = "1h"
    /\ password = ""
    /\ datasets = << [label |-> "Loading data...", data |-> <<>>] >>
    /\ axis = DefaultAxis
    /\ zoomed = FALSE
    /\ calls = <<>>
    /\ pipes = << NewPipeTwo("load", "load", "/range/1h", NoViewport) >>
    /\ running = 0
    /\ settled = <<>>
    /\ requests = << [url |-> "/temp/range/1h"] >>
    /\ co2_chain = [pc |-> "absent", value |-> 0]
    /\ co2_box = [textContent |-> "", backgroundColor |-> ""]

\* A handler up to the await of fetch() in its first fetch_data call.
StartTwo(trigger, handler, path, vp) ==
    /\ pipes' = Append(pipes, NewPipeTwo(trigger, handler, path, vp))
    /\ requests' = Append(requests, [url |-> "/temp" \o path])
    /\ UNCHANGED << config, co2vars, dom, password, datasets, calls, running, settled >>

\* timespan.onchange (lines 677-679).
TimespanChangedTwo(v) ==
    /\ CanStart
    /\ timespan' = v
    /\ UNCHANGED << axis, zoomed >>
    /\ StartTwo("timespan", "timespan_onchange", "/range/" \o timespan', NoViewport)

\* reset.onclick calls timespan.onchange() (lines 681-683).
ResetClickedTwo ==
    /\ CanStart
    /\ UNCHANGED << timespan, axis, zoomed >>
    /\ StartTwo("reset", "timespan_onchange", "/range/" \o timespan, NoViewport)

\* on_zoom_complete_check / on_range_change (lines 685-699).
RefreshTwo(trigger, handler, vp) ==
    /\ CanStart
    /\ axis' = vp
    /\ zoomed' = TRUE
    /\ UNCHANGED timespan
    /\ LET min == MathRound(axis'.min)
           max == MathRound(axis'.max)
       IN  StartTwo(trigger, handler,
                    "/from/" \o ToString(min) \o "/to/" \o ToString(max), vp)

\* The first fetch_data call has returned: its value becomes `temp`, and the
\* second call runs up to its await of fetch().
SecondFetch(p) ==
    /\ running = p
    /\ pipes[p].pc = "returned"
    /\ pipes[p].cleanups = 1
    /\ pipes' = [pipes EXCEPT ![p].data = [temp |-> pipes[p].result],
                              ![p].url = "/humidity" \o pipes[p].path,
                              ![p].pc = "await_fetch",
                              ![p].outcome = "pending",
                              ![p].result = <<>>]
    /\ requests' = Append(requests, [url |-> "/humidity" \o pipes[p].path])
    /\ running' = 0
    /\ UNCHANGED << config, co2vars, dom, timespan, password, chartvars, settled >>

\* update_chart of that snapshot on the dataset list: two pops, two pushes.
update_chart_two(ds, data) ==
    LET popped == SubSeq(ds, 1, IF Len(ds) > 2 THEN Len(ds) - 2 ELSE 0)
        dataset == [i \in 1..Len(data.temp) |->
                      [x |-> data.temp[i].time, y |-> data.temp[i].value]]
        dataset1 == [i \in 1..Len(data.humid) |->
                       [x |-> data.humid[i].time, y |-> data.humid[i].value]]
    IN  popped \o << [label |-> "Temperature (C)", data |-> dataset, yAxisID |-> "y"],
                     [label |-> "Humidity (%H)", data |-> dataset1, yAxisID |-> "y1"] >>

\* The second fetch_data call has returned: fetch_range_data resolves with
\* { temp, humid } and update_chart runs, ending in chart.update('none').
UpdateChartTwo(p) ==
    /\ running = p
    /\ pipes[p].pc = "returned"
    /\ pipes[p].cleanups = 2
    /\ LET data == [temp |-> pipes[p].data.temp, humid |-> pipes[p].result]
       IN  /\ datasets' = update_chart_two(datasets, data)
           /\ IF pipes[p].handler = "timespan_onchange"
              THEN /\ pipes' = [pipes EXCEPT ![p].pc = "updated", ![p].data = data]
                   /\ UNCHANGED running
              ELSE /\ pipes' = [pipes EXCEPT ![p].pc = "done", ![p].data = data]
                   /\ running' = 0
    /\ calls' = Append(calls, [op |-> "update", mode |-> "none", pipe |-> p])
    /\ axis' = IF zoomed THEN axis ELSE FitAxis(datasets')
    /\ UNCHANGED << config, co2vars, requests, dom, timespan, password, zoomed, settled >>

NextTwo ==
    \/ \E v \in Timespans : TimespanChangedTwo(v)
    \/ ResetClickedTwo
    \/ \E vp \in ZoomViewports : RefreshTwo("zoom", "on_zoom_complete_check", vp)
    \/ \E vp \in PanViewports : RefreshTwo("pan", "on_range_change", vp)
    \/ \E p \in Pipes, status \in Statuses : FetchResolves(p, status)
    \/ \E p \in Pipes, error \in TransportErrors : FetchRejects(p, error)
    \/ \E p \in Pipes, body_text \in ErrorTexts : TextResolves(p, body_text)
    \/ \E p \in Pipes, error \in TransportErrors : TextRejects(p, error)
    \/ \E p \in Pipes, body \in TempBodies, elapsed \in ElapsedTimes :
          JsonResolves(p, body, elapsed)
    \/ \E p \in Pipes, error \in DecodeErrors : JsonRejects(p, error)
    \/ \E p \in Pipes : Finally(p)
    \/ \E p \in Pipes : SecondFetch(p)
    \/ \E p \in Pipes : UpdateChartTwo(p)
    \/ \E p \in Pipes : ResetZoom(p)

SpecTwoRequests == InitTwo /\ [][NextTwo]_vars

\* ------------------------------------------------------- the CO2 box
\* Variant of the lookup: a band includes its end.
co2_map_find_closed_end(co2_level) ==
    LET hits == { i \in 1..Len(co2_map) :
                    co2_map[i].start <= co2_level /\ co2_level <= co2_map[i].end }
    IN  IF hits = {} THEN 0 ELSE SetMin(hits)

\* co2_map.find((elem) => elem.start <= co2_level && co2_level < elem.end):
\* the index of the first band that matches, 0 for undefined.
co2_map_find(co2_level) ==
    LET hits == { i \in 1..Len(co2_map) :
                    co2_map[i].start <= co2_level /\ co2_level < co2_map[i].end }
    IN  IF hits = {} THEN 0 ELSE SetMin(hits)

\* update_co2_box(co2_level) on the box: reading .description of undefined
\* throws before the box is written.
update_co2_box(box, co2_level) ==
    LET current_level == co2_map_find(co2_level)
    IN  IF current_level = 0
        THEN [threw |-> TRUE, box |-> box]
        ELSE [threw |-> FALSE,
              box |-> [textContent |-> co2_map[current_level].description,
                       backgroundColor |-> co2_map[current_level].color]]

\* Everything but the CO2 box and its promise chain.
pagevars == << config, dom, timespan, password, chartvars, pipes, running,
               settled, requests >>

\* fetch("/co2/current") resolves: .then((b) => b.json()), whatever the status.
Co2FetchResolves ==
    /\ running = 0
    /\ co2_chain.pc = "await_fetch"
    /\ co2_chain' = [co2_chain EXCEPT !.pc = "await_json"]
    /\ UNCHANGED << pagevars, co2_box >>

\* fetch() or b.json() rejects: the chain has no rejection handler.
Co2Rejects ==
    /\ running = 0
    /\ co2_chain.pc \in { "await_fetch", "await_json" }
    /\ co2_chain' = [co2_chain EXCEPT !.pc = "rejected"]
    /\ UNCHANGED << pagevars, co2_box >>

\* b.json() resolves with a number: .then(update_co2_box).
Co2JsonResolves(co2_level) ==
    /\ running = 0
    /\ co2_chain.pc = "await_json"
    /\ LET r == update_co2_box(co2_box, co2_level)
       IN  /\ co2_box' = r.box
           /\ co2_chain' = [pc |-> IF r.threw THEN "threw" ELSE "done",
                            value |-> co2_level]
    /\ UNCHANGED pagevars

NextCo2Box ==
    \/ Co2FetchResolves
    \/ Co2Rejects
    \/ \E co2_level \in Co2Levels : Co2JsonResolves(co2_level)

\* The page load as far as the CO2 box goes (line 936).
SpecCo2Box == Init /\ [][NextCo2Box]_vars

\* ------------------------------------------------- the metric deriver
\* The page after its first fetch (a reset) has returned `body` to
\* fetch_range_data: the success path and the finally block have run, the
\* derive step is next.
InitDerive ==
    \E body \in ReadingSeqs :
        LET loaded == [hidden |-> [e \in Elements |-> e \in PlainMarkup \/ e = "error"],
                       text |-> [e \in {"error", "start_date", "end_date",
                                        "load_time", "points_loaded"} |-> ""]]
            d == show_result(loaded, body, 12)
        IN  /\ variant = "co2"
            /\ hide_until_loaded = PlainMarkup
            /\ hidden = hide_indicator(d.hidden)
            /\ text = d.text
            /\ timespan = "1h"
            /\ password = ""
            /\ datasets = <<>>
            /\ axis = DefaultAxis
            /\ zoomed = FALSE
            /\ calls = <<>>
            /\ pipes = << [NewPipe("reset", "timespan_onchange", "/data/range/1h",
                                   "", NoViewport)
                              EXCEPT !.pc = "returned", !.outcome = "success",
                                     !.result = body, !.cleanups = 1] >>
            /\ running = 1
            /\ settled = << 1 >>
            /\ requests = << Request("/data/range/1h", "") >>
            /\ co2_chain = [pc |-> "await_fetch", value |-> 0]
            /\ co2_box = [textContent |-> "", backgroundColor |-> ""]

\* The reactions that follow: derive, reconcile, reset the viewport.
NextDerive ==
    \/ \E p \in Pipes : Derive(p)
    \/ \E p \in Pipes : UpdateChart(p)
    \/ \E p \in Pipes : ResetZoom(p)

SpecDerive == InitDerive /\ [][NextDerive]_vars

\* ============================================================ properties
InFlight(p) == pipes[p].pc \in { "await_fetch", "await_text", "await_json" }

Failed(p) == pipes[p].outcome \in { "non200", "rejected", "decode" }

Succeeded(p) == pipes[p].outcome = "success"

\* fetch_data of p has settled and p's reactions are still running.
Settling(p) == running = p /\ pipes[p].pc \in { "finally", "returned", "derived", "updated" }

\* The points a sequence of readings is plotted as, per metric.
TempPoints(body) == [i \in 1..Len(body) |-> [x |-> body[i].time, y |-> body[i].temperature]]
HumidPoints(body) == [i \in 1..Len(body) |-> [x |-> body[i].time, y |-> body[i].humidity]]
Co2Points(body) ==
    LET kept == FilterCo2(body)
    IN  [i \in 1..Len(kept) |-> [x |-> kept[i].time, y |-> kept[i].co2]]

\* The chart as one reconcile of the readings in body leaves it.
Renders(body) ==
    /\ Len(datasets) = 3
    /\ datasets[1].data = TempPoints(body)
    /\ datasets[2].data = HumidPoints(body)
    /\ datasets[3].data = Co2Points(body)

Entries(op, p) == { i \in 1..Len(calls) : calls[i].op = op /\ calls[i].pipe = p }

\* C1: once every started pipeline's reactions have run, the chart's datasets
\* hold the readings of the response that resolved last, whatever order the
\* requests were started in: of two overlapping pan / zoom refreshes whose
\* newer response resolves first, the older one's readings stay rendered.
C1_LastResolvedWins ==
    (running = 0 /\ settled # <<>>) =>
        Renders(pipes[settled[Len(settled)]].result)

\* Two refreshes, the newer resolved first with no reading, the older last
\* with three: the chart shows the older one's readings.
C1_Witness ==
    /\ Len(pipes) = 2
    /\ pipes[1].trigger = "pan" /\ pipes[2].trigger = "zoom"
    /\ pipes[1].pc = "done" /\ pipes[2].pc = "done"
    /\ settled = << 2, 1 >>
    /\ pipes[1].result = << R1, R2, R3 >>
    /\ pipes[2].result = <<>>
    /\ datasets[1].data = << [x |-> 1000, y |-> 20], [x |-> 2500, y |-> -5],
                             [x |-> 4000, y |-> 22] >>
    /\ datasets[3].data = << [x |-> 1000, y |-> 450] >>

\* The most recent pipeline in settled order whose fetch succeeded, or 0.
LastSuccess ==
    LET ok == { i \in 1..Len(settled) : Succeeded(settled[i]) }
    IN  IF ok = {} THEN 0 ELSE settled[CHOOSE i \in ok : \A j \in ok : j <= i]

\* C2: when the fetch that settled last has failed and its pipeline is over,
\* every dataset still holds the points of the last successful fetch.
C2_FailureKeepsRenderedData ==
    (/\ running = 0
     /\ settled # <<>>
     /\ Failed(settled[Len(settled)])
     /\ LastSuccess # 0)
    => Renders(pipes[LastSuccess].result)

\* C3: the finally block of fetch_data hides the in-flight indicator exactly
\* once per call, whatever the outcome: not before the outcome is classified,
\* and before the caller's continuation gets the result.
C3_IndicatorHiddenOncePerFetch ==
    \A p \in Pipes :
        /\ InFlight(p) => pipes[p].cleanups = 0 /\ pipes[p].outcome = "pending"
        /\ pipes[p].pc = "finally" =>
              pipes[p].cleanups = 0 /\ pipes[p].outcome # "pending"
        /\ pipes[p].pc \in { "returned", "derived", "updated", "done" } =>
              /\ pipes[p].cleanups = 1
              /\ pipes[p].outcome # "pending"
              /\ hidden["spinner"]

\* A failed and a successful call have both returned to their callers.
C3_Witness ==
    /\ Len(pipes) = 2
    /\ pipes[1].outcome = "rejected" /\ pipes[1].pc = "done"
    /\ pipes[2].outcome = "success" /\ pipes[2].pc = "returned"
    /\ pipes[1].cleanups = 1 /\ pipes[2].cleanups = 1

\* The page shows a fetch in flight: the result-dependent elements hidden, the
\* in-flight indicator visible.
LoadingUI(h) == (\A e \in hide_until_loaded : h[e]) /\ ~h["spinner"]

\* C4 as stated: a fetch that starts while no other fetch is in flight hides
\* the result-dependent elements and shows the in-flight indicator, and they
\* stay so while that fetch is in flight and every other pipeline is over.
C4_LoadingHidesResults ==
    [][ /\ (Len(pipes') > Len(pipes) /\ \A q \in Pipes : ~InFlight(q)) =>
              LoadingUI(hidden')
        /\ \A p \in Pipes :
              (/\ InFlight(p) /\ pipes'[p].pc = pipes[p].pc
               /\ \A q \in Pipes \ {p} : pipes[q].pc = "done"
               /\ LoadingUI(hidden)) =>
                  LoadingUI(hidden') ]_vars

\* C4 amended: starting a fetch changes no element's visibility, and the
\* in-flight indicator, once hidden, is never shown again (it is visible
\* only until the first fetch settles).
C4_StartChangesNoVisibility ==
    [][ /\ Len(pipes') > Len(pipes) => hidden' = hidden
        /\ hidden["spinner"] => hidden'["spinner"] ]_vars

\* A fetch is in flight while the results of an earlier one are visible and
\* the indicator is hidden.
C4_Witness ==
    /\ Len(pipes) = 2
    /\ pipes[1].pc = "done" /\ Succeeded(1)
    /\ pipes[2].pc = "await_fetch"
    /\ ~hidden["content"]
    /\ hidden["spinner"]

\* C5: when a fetch settles as a failure, the banner is visible, every
\* '.hide-until-loaded' element is hidden, and the banner's text is the
\* response body text (non-200) or the thrown error's description.
C5_FailureSurfacesMessage ==
    \A p \in Pipes :
        (Settling(p) /\ Failed(p)) =>
            /\ ~hidden["error"]
            /\ \A e \in hide_until_loaded : hidden[e]
            /\ pipes[p].outcome = "non200" => text["error"] = pipes[p].message
            /\ pipes[p].outcome \in { "rejected", "decode" } =>
                  text["error"] = pipes[p].message.name \o ": " \o pipes[p].message.message

\* Scenario B after a success: a 500 with body "db unavailable".
C5_Witness ==
    /\ Len(pipes) = 2
    /\ pipes[1].pc = "done" /\ Succeeded(1)
    /\ pipes[2].outcome = "non200"
    /\ pipes[2].pc = "returned"
    /\ text["error"] = "db unavailable"

\* C6: when a fetch settles as a success, with an empty body or not, the
\* result-dependent elements are visible and the error banner is hidden.  (The
\* date displays follow their own rule, C7.)
C6_SuccessRevealsResults ==
    \A p \in Pipes :
        (Settling(p) /\ Succeeded(p)) =>
            /\ \A e \in hide_until_loaded \ { "start_date", "end_date" } : ~hidden[e]
            /\ hidden["error"]

\* A success with an empty body right after a failure.
C6_Witness ==
    /\ Len(pipes) = 2
    /\ pipes[1].pc = "done" /\ Failed(1)
    /\ settled = << 1, 2 >>
    /\ Succeeded(2) /\ pipes[2].result = <<>>
    /\ pipes[2].pc = "returned"
    /\ text["error"] # ""

Slots(ds) == [i \in 1..Len(ds) |-> [label |-> ds[i].label, yAxisID |-> ds[i].yAxisID]]

\* C8: once populated, the chart keeps the number, order, labels and axis
\* bindings of its datasets through every later reconcile, which replaces
\* point sequences only; and reconciling once more with the series just
\* reconciled changes nothing.
C8_SlotsFixed ==
    [][ /\ datasets # <<>> => Slots(datasets') = Slots(datasets)
        /\ \A p \in Pipes :
              (pipes[p].pc = "derived" /\ pipes'[p].pc # "derived") =>
                  /\ \A i \in 1..Len(datasets') :
                        datasets'[i].data = ToPoints(pipes[p].data[<< "temp", "humid", "co2" >>[i]])
                  /\ update_chart(variant, datasets', pipes[p].data) = datasets' ]_vars

\* Two reconciles have run: the second replaced the points of the first.
C8_Witness ==
    /\ Len(pipes) = 2
    /\ Entries("update", 1) # {} /\ Entries("update", 2) # {}
    /\ settled = << 1, 2 >>
    /\ pipes[1].result = << R1, R2, R3 >>
    /\ pipes[2].result = <<>>
    /\ Succeeded(2)
    /\ Len(datasets) = 3
    /\ datasets[1].data = <<>>

\* C9: after the first reconcile the chart has one dataset per series of the
\* derive step.
C9_OneDatasetPerSeries ==
    datasets # <<>> =>
        Len(datasets) = Cardinality(DOMAIN derive(variant, <<>>))

\* C10: a pipeline started by a preset change, a credential change or a reset
\* calls chart.resetZoom exactly once, as its last step, after its reconcile
\* and redraw; a pipeline started by a pan or a zoom never calls it.
C10_ResetZoomOnFullReloadOnly ==
    \A p \in Pipes :
        LET resets == Entries("resetZoom", p)
            updates == Entries("update", p)
        IN  /\ pipes[p].trigger \in { "pan", "zoom" } => resets = {}
            /\ pipes[p].pc # "done" => resets = {}
            /\ (pipes[p].trigger \in FullReloadTriggers /\ pipes[p].pc = "done") =>
                  /\ Cardinality(resets) = 1
                  /\ Cardinality(updates) = 1
                  /\ \A r \in resets, u \in updates : u < r

\* A credential change and a pan have both run to their end: one resetZoom.
C10_Witness ==
    /\ Len(pipes) = 2
    /\ pipes[1].trigger = "password" /\ pipes[2].trigger = "pan"
    /\ pipes[1].pc = "done" /\ pipes[2].pc = "done"
    /\ settled = << 2, 1 >>
    /\ Len(calls) = 3
    /\ calls[3].op = "resetZoom"

\* The readings of body that carry a CO2 value: the field is there and is
\* not 0.
WithCo2(body) == { i \in 1..Len(body) : "co2" \in DOMAIN body[i] /\ body[i].co2 # 0 }

\* The k-th smallest element of a set of indices.
Nth(S, k) == CHOOSE i \in S : Cardinality({ j \in S : j <= i }) = k

\* C11: the derived temperature and humidity series have one point per reading
\* in the same order; the derived CO2 series holds, in order, one point for
\* exactly the readings that carry a CO2 value, and none for a reading without
\* the field or with the value 0.
C11_SeriesPerReading ==
    \A p \in Pipes :
        pipes[p].pc \in { "derived", "updated", "done" } =>
            LET body == pipes[p].result
                data == pipes[p].data
                kept == WithCo2(body)
            IN  /\ Len(data.temp) = Len(body)
                /\ Len(data.humid) = Len(body)
                /\ \A i \in 1..Len(body) :
                      /\ data.temp[i] = [time |-> body[i].time, value |-> body[i].temperature]
                      /\ data.humid[i] = [time |-> body[i].time, value |-> body[i].humidity]
                /\ Len(data.co2) = Cardinality(kept)
                /\ \A k \in 1..Len(data.co2) :
                      data.co2[k] = [time |-> body[Nth(kept, k)].time,
                                     value |-> body[Nth(kept, k)].co2]

\* Three readings, the middle one with CO2 0, the last without the field: three
\* temperature points and one CO2 point.
C11_Witness ==
    /\ Len(pipes) = 1
    /\ pipes[1].pc = "derived"
    /\ pipes[1].result = << R1, R2, R3 >>
    /\ Len(pipes[1].data.temp) = 3
    /\ pipes[1].data.co2 = << [time |-> 1000, value |-> 450] >>

\* C12: for a reading with temperature T # 0 (whole degrees never reach
\* -257.14) and relative humidity RH >= 0, the absolute humidity derived is
\* >= 0, below freezing too.
C12_AbsoluteHumidityNonNegative ==
    \A p \in Pipes :
        (variant = "abs_humid" /\ pipes[p].pc \in { "derived", "updated", "done" }) =>
            \A i \in 1..Len(pipes[p].result) :
                (pipes[p].result[i].temperature # 0 /\ pipes[p].result[i].humidity >= 0) =>
                    pipes[p].data.abs_humid[i].value >= 0

\* a is the whole millisecond nearest to x tenths of a millisecond, a half
\* counting upwards.
IsNearest(a, x) == 10 * a - 5 <= x /\ x < 10 * a + 5

\* C13: the query of a pan or zoom refresh carries, for each bound of the
\* viewport the gesture ended on, the nearest whole millisecond; rounding such
\* a bound again changes nothing, and an earlier gesture that ended on the same
\* viewport built the same query.
C13_QueryBoundsRounded ==
    [][ Len(pipes') > Len(pipes) =>
          LET n == Len(pipes')
              new == pipes'[n]
          IN  new.trigger \in { "pan", "zoom" } =>
                /\ new.viewport = axis'
                /\ \E a \in (new.viewport.min \div 10)..(new.viewport.min \div 10 + 1),
                      b \in (new.viewport.max \div 10)..(new.viewport.max \div 10 + 1) :
                      /\ IsNearest(a, new.viewport.min)
                      /\ IsNearest(b, new.viewport.max)
                      /\ requests'[n].url =
                            "/data/from/" \o ToString(a) \o "/to/" \o ToString(b)
                      /\ MathRound(10 * a) = a
                      /\ MathRound(10 * b) = b
                /\ \A q \in Pipes :
                      pipes[q].viewport = new.viewport =>
                          requests[q].url = requests'[n].url ]_vars

\* Two zooms have ended on the same fractional viewport and built one query.
C13_Witness ==
    /\ Len(pipes) = 2
    /\ pipes[1].trigger = "zoom" /\ pipes[2].trigger = "zoom"
    /\ pipes[1].viewport = [min |-> 10004, max |-> 39996]
    /\ requests[1].url = "/data/from/1000/to/4000"
    /\ requests[2].url = "/data/from/1000/to/4000"

\* The bands of the table that hold v, as half-open intervals.
BandsOf(v) == { i \in 1..Len(co2_map) : co2_map[i].start <= v /\ v < co2_map[i].end }

\* C14: for a value v inside the table, the box shows the description and
\* color of the one band with start <= v < end; a value equal to a band's end
\* belongs to the next band (550 gives Good / green, 600 Moderate / yellow).
C14_Co2BoxShowsBand ==
    co2_chain.pc \in { "done", "threw" } =>
        LET v == co2_chain.value
        IN  /\ Cardinality(BandsOf(v)) <= 1
            /\ \A i \in BandsOf(v) :
                  /\ co2_chain.pc = "done"
                  /\ co2_box.textContent = co2_map[i].description
                  /\ co2_box.backgroundColor = co2_map[i].color
            /\ v = 550 => co2_box = [textContent |-> "Good", backgroundColor |-> "green"]
            /\ v = 600 => co2_box = [textContent |-> "Moderate", backgroundColor |-> "yellow"]

\* The value at the end of the first band has been shown as the second band.
C14_Witness ==
    /\ co2_chain = [pc |-> "done", value |-> 600]
    /\ co2_box = [textContent |-> "Moderate", backgroundColor |-> "yellow"]

\* C15: every event starts a pipeline of its own and issues exactly one
\* request, also while earlier requests are in flight: there are as many
\* requests as events, an event leaves the earlier pipelines and their
\* requests as they are, and no pipeline goes back to waiting for a response.
C15_OneRequestPerEvent ==
    [][ /\ Len(requests') = Len(pipes')
        /\ Len(pipes') \in { Len(pipes), Len(pipes) + 1 }
        /\ \A p \in Pipes :
              /\ requests'[p] = requests[p]
              /\ pipes'[p].pc = "await_fetch" => pipes[p].pc = "await_fetch"
        /\ Len(pipes') > Len(pipes) =>
              LET n == Len(pipes')
              IN  /\ \A p \in Pipes : pipes'[p] = pipes[p]
                  /\ pipes'[n].pc = "await_fetch"
                  /\ requests'[n] = [url |-> pipes'[n].url,
                                     authorization |-> pipes'[n].authorization] ]_vars

\* A credential change while the request of a pan is in flight: two requests
\* in flight, the second with the new credential.
C15_Witness ==
    /\ Len(pipes) = 2
    /\ pipes[1].trigger = "pan" /\ pipes[2].trigger = "password"
    /\ pipes[1].pc = "await_fetch" /\ pipes[2].pc = "await_fetch"
    /\ requests = << [url |-> "/data/from/2500/to/8000", authorization |-> "Bearer "],
                     [url |-> "/data/range/1h", authorization |-> "Bearer secret"] >>

\* How far a pipeline has got.
Rank(pc) ==
    CASE pc = "await_fetch" -> 1
      [] pc \in { "await_text", "await_json" } -> 2
      [] pc = "finally" -> 3
      [] pc = "returned" -> 4
      [] pc = "derived" -> 5
      [] pc = "updated" -> 6
      [] pc = "done" -> 7

EntriesIn(log, op, p) == { i \in 1..Len(log) : log[i].op = op /\ log[i].pipe = p }

\* C16: a pipeline only moves forward through fetch, UI cleanup, derive,
\* reconcile and redraw, viewport reset; it cleans up only once its request has
\* settled, derives only after the cleanup, reconciles and redraws only after
\* deriving and only once, and resets the viewport only after its redraw; the
\* datasets change in no other step than a pipeline's reconcile.
C16_StepsInOrder ==
    [][ /\ \A p \in Pipes :
              LET was == pipes[p]
                  is == pipes'[p]
                  updates == EntriesIn(calls, "update", p)
                  updates_after == EntriesIn(calls', "update", p)
                  resets == EntriesIn(calls, "resetZoom", p)
                  resets_after == EntriesIn(calls', "resetZoom", p)
              IN  /\ is.pc # was.pc => Rank(is.pc) > Rank(was.pc)
                  /\ is.cleanups # was.cleanups =>
                        was.pc = "finally" /\ was.outcome # "pending" /\ was.cleanups = 0
                  /\ (is.pc = "derived" /\ was.pc # "derived") =>
                        was.pc = "returned" /\ was.cleanups = 1
                  /\ updates_after # updates =>
                        /\ was.pc = "derived"
                        /\ updates = {}
                        /\ Cardinality(updates_after) = 1
                  /\ resets_after # resets =>
                        /\ was.pc = "updated"
                        /\ Cardinality(updates) = 1
                        /\ resets = {}
                        /\ Cardinality(resets_after) = 1
        /\ datasets' # datasets =>
              \E p \in Pipes :
                  /\ pipes[p].pc = "derived"
                  /\ EntriesIn(calls', "update", p) # EntriesIn(calls, "update", p) ]_vars

\* A reset and a zoom have run to their end, the zoom's response last: redraw
\* and viewport reset of the reset, then the redraw of the zoom.
C16_Witness ==
    /\ Len(pipes) = 2
    /\ pipes[1].trigger = "reset" /\ pipes[2].trigger = "zoom"
    /\ pipes[1].pc = "done" /\ pipes[2].pc = "done"
    /\ pipes[1].cleanups = 1 /\ pipes[2].cleanups = 1
    /\ calls = << [op |-> "update", mode |-> "none", pipe |-> 1],
                  [op |-> "resetZoom", mode |-> "", pipe |-> 1],
                  [op |-> "update", mode |-> "none", pipe |-> 2] >>

Done(p) == p \in Pipes /\ pipes[p].pc = "done"

\* The request of pipeline p is waiting for the network.
Waiting(p) == p \in Pipes /\ InFlight(p)

\* C17: a pipeline whose request does not wait for ever (it settles, by a
\* response or a rejection) eventually hides the in-flight indicator and
\* finishes, whether the requests of the other pipelines settle or not; the
\* only way for a started pipeline never to finish is that its request never
\* settles.
C17_SettledPipelinesFinish ==
    \A p \in 1..MaxPipelines :
        ([]<>(~Waiting(p))) =>
            [](p \in Pipes => <>(Done(p) /\ hidden["spinner"]))

\* The first request is still waiting while a later pipeline has started and
\* finished.
C17_Witness ==
    /\ Len(pipes) = 2
    /\ pipes[1].pc = "await_fetch"
    /\ pipes[2].pc = "done"
    /\ pipes[2].cleanups = 1
    /\ hidden["spinner"]

\* The step takes the fetch_data call of pipeline p from pending to outcome o.
Outcome(p, o) == pipes[p].outcome = "pending" /\ pipes'[p].outcome = o

\* The step is one of the fetch_data call of pipeline p.
FetchDataStep(p) ==
    /\ InFlight(p) \/ pipes[p].pc = "finally"
    /\ pipes'[p].pc # pipes[p].pc

\* C18 as stated: the elapsed time goes into the returned result and
\* fetch_data writes it to no shared state: no step of a fetch_data call
\* changes the load-time display.
C18_ElapsedNotShared ==
    [][ \A p \in Pipes :
          FetchDataStep(p) => text'["load_time"] = text["load_time"] ]_vars

\* C18 amended: a successful fetch_data writes the elapsed time to the
\* load-time display and the number of readings to the point-count display,
\* and returns the readings alone; a failed one leaves both displays as they
\* were; a fetch_data call changes the page and nothing of the chart, the
\* preset or the credential.
C18_ElapsedShownNotReturned ==
    [][ \A p \in Pipes :
          /\ Outcome(p, "success") =>
                /\ text'["load_time"] \in { ToString(e) : e \in ElapsedTimes }
                /\ pipes'[p].result \in Bodies
                /\ text'["points_loaded"] = ToString(Len(pipes'[p].result))
          /\ (\E o \in { "non200", "rejected", "decode" } : Outcome(p, o)) =>
                /\ text'["load_time"] = text["load_time"]
                /\ text'["points_loaded"] = text["points_loaded"]
                /\ pipes'[p].result = <<>>
          /\ FetchDataStep(p) =>
                /\ chartvars' = chartvars
                /\ timespan' = timespan
                /\ password' = password ]_vars

\* A fetch has succeeded and a later one failed: the display still holds the
\* elapsed time of the first, whose result is the three readings.
C18_Witness ==
    /\ Len(pipes) = 2
    /\ settled = << 1, 2 >>
    /\ Succeeded(1) /\ pipes[1].result = << R1, R2, R3 >>
    /\ Failed(2)
    /\ text["load_time"] = "12"
    /\ text["points_loaded"] = "3"

\* C19: every redraw the chart is asked for is one with animations disabled,
\* chart.update('none'), and a pipeline that has reconciled has asked for
\* exactly one redraw.
C19_RedrawWithoutAnimation ==
    /\ \A i \in 1..Len(calls) : calls[i].op = "update" => calls[i].mode = "none"
    /\ \A p \in Pipes :
          pipes[p].pc \in { "updated", "done" } =>
              Cardinality(Entries("update", p)) = 1

\* The result-dependent elements; the date displays follow their own rule (C7).
ResultUI == hide_until_loaded \ { "start_date", "end_date" }

\* C20: once a fetch has settled, either the error banner is visible and every
\* result-dependent element hidden, or the banner is hidden and every
\* result-dependent element visible, however the fetches overlap.
C20_ErrorXorResults ==
    (\E p \in Pipes : pipes[p].outcome # "pending") =>
        \/ ~hidden["error"] /\ \A e \in ResultUI : hidden[e]
        \/ hidden["error"] /\ \A e \in ResultUI : ~hidden[e]

\* Two overlapping fetches: the newer failed first, the older succeeded last
\* and replaced the banner by the results.
C20_Witness ==
    /\ Len(pipes) = 2
    /\ settled = << 2, 1 >>
    /\ Failed(2) /\ Succeeded(1)
    /\ text["error"] # ""
    /\ hidden["error"]
    /\ ~hidden["content"]

\* No request is waiting for the network and no reaction is running.
Quiet == running = 0 /\ \A p \in Pipes : ~InFlight(p)

\* C21: whenever no request is in flight and the result-dependent elements
\* are visible, the point-count display holds the number of points of the
\* chart's temperature dataset, and the start and end displays, when visible,
\* hold the times of its first and last point; with no point they are hidden.
C21_DisplaysMatchChart ==
    (Quiet /\ Pipes # {} /\ \A e \in ResultUI : ~hidden[e]) =>
        /\ datasets # <<>>
        /\ LET points == datasets[1].data
           IN  /\ text["points_loaded"] = ToString(Len(points))
               /\ IF Len(points) > 0
                  THEN /\ ~hidden["start_date"] =>
                             text["start_date"] = toLocaleString(points[1].x)
                       /\ ~hidden["end_date"] =>
                             text["end_date"] = toLocaleString(points[Len(points)].x)
                  ELSE hidden["start_date"] /\ hidden["end_date"]

\* The events that end a gesture of the user on the chart.
GestureTriggers == { "zoom", "pan" }

\* This step is pipeline p's call of chart.resetZoom().
ResetsViewport(p) ==
    /\ Len(calls') = Len(calls) + 1
    /\ calls'[Len(calls')] = [op |-> "resetZoom", mode |-> "", pipe |-> p]

\* C22: the viewport is reset after a completed pan or zoom only if a full
\* reload (preset change, credential change, reset) was started after that
\* gesture: at every chart.resetZoom() step, each gesture started so far is
\* followed by a later-started full reload.
C22_NoResetAfterGesture ==
    [][\A p \in Pipes : ResetsViewport(p) =>
          \A q \in Pipes : pipes[q].trigger \in GestureTriggers =>
              \E r \in Pipes : r > q /\ pipes[r].trigger \in FullReloadTriggers]_vars

\* The pipeline whose fetch_data call settled last.
LastSettled == settled[Len(settled)]

\* C23: when the fetch that settled last succeeded with at least one reading,
\* the start and end displays are not hidden, whatever the fetches before it
\* did (an empty successful result hides them).
C23_DatesShownAfterNonEmpty ==
    (running = 0 /\ settled # <<>>
        /\ Succeeded(LastSettled) /\ Len(pipes[LastSettled].result) > 0) =>
            ~hidden["start_date"] /\ ~hidden["end_date"]

\* C24: in every chart state each dataset's yAxisID names a scale that the
\* chart configuration declares.
C24_DatasetsOnDeclaredScales ==
    \A i \in 1..Len(datasets) : datasets[i].yAxisID \in DOMAIN scales

====
